---------------------------- MODULE Spec2Model ----------------------------
(***************************************************************************)
(* State-machine model of the LOF/QDII arbitrage pipeline:                 *)
(*   - lof_data.py  : LOFDataHandler (parse, sort, qualify, materialize)   *)
(*   - db_utils.py  : DatabaseManager (connection, upserts, queries)       *)
(*                                                                         *)
(* Python values are records [t, s, n]: t is the Python type, s the text   *)
(* of a str as a sequence of characters (a status literal is a single      *)
(* opaque token), n the value of a number in hundredths.                   *)
(***************************************************************************)
EXTENDS Integers, Sequences, FiniteSets, TLC

VARIABLES
    \* ---- LOFDataHandler (lof_data.py) ----
    raw_data,       \* the payload handed to the constructor
    sort_by,        \* the constructor's sort_by argument
    lof_list,       \* self.lof_list
    page_info,      \* self.page_info
    hpc,            \* "new" | "parsed" (constructor returned) | "raised"
    struct_array,   \* last result of get_fund_struct_array
    deserve,        \* last result of get_deserve_arbitrage_fund
    qualified,      \* last results of _is_qualified_fund, one per lof_list entry
    called          \* which of the three were called since construction

hvars == <<raw_data, sort_by, lof_list, page_info, hpc, struct_array, deserve,
           qualified, called>>

VARIABLES
    \* ---- DatabaseManager (db_utils.py) and the MySQL server ----
    conn,           \* self.conn: "none" | "live" | "dropped"
    funds,          \* table funds, rows in id order
    ai_analyses,    \* table ai_analyses, rows in id order
    now,            \* the clock (CURRENT_TIMESTAMP; datetime.now())
    last            \* what the last persistence operation did and returned

dvars == <<conn, funds, ai_analyses, now, last>>

VARIABLES
    \* ---- the service (main.py) ----
    world,          \* what the run's collaborators hold: [credentials, upstream,
                    \* answer] (the environment variables, the payload the
                    \* upstream serves, the collaborator's answer)
    server,         \* the process: "live" | "exited"
    runs,           \* run_analysis invocations: id -> [pc, origin, response, ...]
    reply           \* the last reply of GET /api/ai-analyses/{date}

pvars == <<world, server, runs, reply>>

vars == <<hvars, dvars, pvars>>

-----------------------------------------------------------------------------
(* Python values *)

Str(chars) == [t |-> "str", s |-> chars, n |-> 0]
Num(hundredths) == [t |-> "num", s |-> <<>>, n |-> hundredths]
NoneVal == [t |-> "none", s |-> <<>>, n |-> 0]
EmptyStr == Str(<<>>)

\* The sequences over S of length at most n
SeqsUpTo(S, n) == UNION {[1..k -> S] : k \in 0..n}

\* dict.get(key, default) on a flat field mapping
Get(d, key, default) == IF key \in DOMAIN d THEN d[key] ELSE default

\* The two status literals of _is_qualified_fund (Chinese in the source).
SUSPEND_APPLY == Str(<<"zanting-shengou">>)     \* lof_data.py:216
OPEN_REDEEM == Str(<<"kaifang-shuhui">>)        \* lof_data.py:221

\* The 21 fields of LOFFund, in declaration order.
LOFFundFields ==
    <<"fund_id", "fund_nm", "price", "pre_close", "price_dt", "increase_rt",
      "volume", "amount", "amount_incr", "fund_nav", "estimate_value",
      "discount_rt", "index_id", "index_nm", "index_increase_rt", "apply_fee",
      "apply_status", "redeem_fee", "redeem_status", "turnover_rt", "nav_dt">>

FieldSet == {LOFFundFields[i] : i \in 1..Len(LOFFundFields)}

-----------------------------------------------------------------------------
(* str.replace('%', '') and float() *)

RECURSIVE StripPercent(_)
StripPercent(chars) ==
    IF chars = <<>> THEN <<>>
    ELSE IF Head(chars) = "%" THEN StripPercent(Tail(chars))
    ELSE <<Head(chars)>> \o StripPercent(Tail(chars))

IsDigit(c) == c \in {"0", "1", "2", "3", "4", "5", "6", "7", "8", "9"}

DigitValue(c) ==
    CASE c = "0" -> 0 [] c = "1" -> 1 [] c = "2" -> 2 [] c = "3" -> 3
      [] c = "4" -> 4 [] c = "5" -> 5 [] c = "6" -> 6 [] c = "7" -> 7
      [] c = "8" -> 8 [] c = "9" -> 9

AllDigits(chars) == \A i \in 1..Len(chars) : IsDigit(chars[i])

RECURSIVE DigitsValue(_)
DigitsValue(chars) ==
    IF chars = <<>> THEN 0
    ELSE DigitsValue(SubSeq(chars, 1, Len(chars) - 1)) * 10
         + DigitValue(chars[Len(chars)])

\* float(str): [sign] digits [. digits], at least one digit; anything else is
\* a ValueError.  The value is in hundredths, so the text carries at most two
\* fractional digits.
FloatOfStr(chars) ==
    LET signed == chars # <<>> /\ Head(chars) \in {"-", "+"}
        neg == chars # <<>> /\ Head(chars) = "-"
        body == IF signed THEN Tail(chars) ELSE chars
        dots == {i \in 1..Len(body) : body[i] = "."}
        d == IF dots = {} THEN Len(body) + 1 ELSE CHOOSE i \in dots : TRUE
        ip == SubSeq(body, 1, d - 1)
        fp == SubSeq(body, d + 1, Len(body))
        ok == /\ Cardinality(dots) <= 1
              /\ AllDigits(ip) /\ AllDigits(fp)
              /\ Len(ip) + Len(fp) >= 1
              /\ Len(fp) <= 2
        mag == DigitsValue(ip) * 100
               + (IF Len(fp) = 1 THEN DigitsValue(fp) * 10 ELSE DigitsValue(fp))
    IN  IF ok THEN [err |-> "", val |-> IF neg THEN 0 - mag ELSE mag]
        ELSE [err |-> "ValueError", val |-> 0]

\* float(value) for any Python value
Float(value) ==
    CASE value.t = "str" -> FloatOfStr(value.s)
      [] value.t = "num" -> [err |-> "", val |-> value.n]
      [] OTHER -> [err |-> "TypeError", val |-> 0]

\* if isinstance(value, str): value = value.replace('%', '')
StripIfStr(value) ==
    IF value.t = "str" THEN Str(StripPercent(value.s)) ELSE value


\* int(str): [sign] digits, at least one digit; anything else is a ValueError.
IntOfStr(chars) ==
    LET signed == chars # <<>> /\ Head(chars) \in {"-", "+"}
        body == IF signed THEN Tail(chars) ELSE chars
    IN  IF body # <<>> /\ AllDigits(body) THEN "" ELSE "ValueError"

-----------------------------------------------------------------------------
(* LOFDataHandler._sort_lof_list *)

valid_sort_fields == {"discount_rt", "premium_rt"}

\* sort_key(item) of _sort_lof_list, in hundredths
sort_key(item, field) ==
    LET value == StripIfStr(Get(item, field, Str(<<"0">>)))
        f == Float(value)
    IN  IF f.err \in {"ValueError", "TypeError"} THEN 0 ELSE f.val

RECURSIVE InsertDescUnstable(_, _, _)
InsertDescUnstable(sorted, x, field) ==
    IF sorted = <<>> THEN <<x>>
    ELSE IF sort_key(Head(sorted), field) > sort_key(x, field)
         THEN <<Head(sorted)>> \o InsertDescUnstable(Tail(sorted), x, field)
         ELSE <<x>> \o sorted

\* One step of the stable descending sort: x, the next element in original
\* order, goes after every element whose key is >= its own.
RECURSIVE InsertDesc(_, _, _)
InsertDesc(sorted, x, field) ==
    IF sorted = <<>> THEN <<x>>
    ELSE IF sort_key(Head(sorted), field) >= sort_key(x, field)
         THEN <<Head(sorted)>> \o InsertDesc(Tail(sorted), x, field)
         ELSE <<x>> \o sorted

\* list.sort(key=sort_key, reverse=True): stable, descending
RECURSIVE ListSortReverse(_, _)
ListSortReverse(list, field) ==
    IF list = <<>> THEN <<>>
    ELSE InsertDesc(ListSortReverse(SubSeq(list, 1, Len(list) - 1), field),
                    list[Len(list)], field)

_sort_lof_list(list, field) ==
    IF field \notin valid_sort_fields THEN list
    ELSE ListSortReverse(list, field)

-----------------------------------------------------------------------------
(* LOFDataHandler._is_qualified_fund: [raised, ret] *)

\* except (ValueError, TypeError)
QualifyCaught == {"ValueError", "TypeError"}

QualifiedRateAtLeast(hundredths) == hundredths >= 4 * 100

\* discount_rt_value > 4
QualifiedRate(hundredths) == hundredths > 4 * 100

_is_qualified_fund(lof) ==
    IF Get(lof, "apply_status", EmptyStr) = SUSPEND_APPLY
    THEN [raised |-> FALSE, ret |-> FALSE]
    ELSE IF Get(lof, "redeem_status", EmptyStr) # OPEN_REDEEM
    THEN [raised |-> FALSE, ret |-> FALSE]
    ELSE LET f == Float(StripIfStr(Get(lof, "discount_rt", EmptyStr)))
         IN  IF f.err = "" THEN [raised |-> FALSE, ret |-> QualifiedRate(f.val)]
             ELSE IF f.err \in QualifyCaught THEN [raised |-> FALSE, ret |-> FALSE]
             ELSE [raised |-> TRUE, ret |-> FALSE]

-----------------------------------------------------------------------------
(* Materialization: get_fund_struct_array, get_deserve_arbitrage_fund *)

\* The default of lof.get(field, ...) in both projections: '' for twenty
\* fields, and no default (None) for nav_dt.
FieldDefault(field) == IF field = "nav_dt" THEN NoneVal ELSE EmptyStr

\* LOFFund(fund_id=lof.get('fund_id', ''), ..., nav_dt=lof.get('nav_dt'))
LOFFund(lof) == [f \in FieldSet |-> Get(lof, f, FieldDefault(f))]

get_fund_struct_array(list) == [i \in 1..Len(list) |-> LOFFund(list[i])]

KeepsAll(lof) == TRUE

\* if self._is_qualified_fund(lof):
Keeps(lof) == _is_qualified_fund(lof).ret

RECURSIVE get_deserve_arbitrage_fund(_)
get_deserve_arbitrage_fund(list) ==
    IF list = <<>> THEN <<>>
    ELSE (IF Keeps(Head(list)) THEN <<LOFFund(Head(list))>> ELSE <<>>)
         \o get_deserve_arbitrage_fund(Tail(list))

-----------------------------------------------------------------------------
(* LOFDataHandler._parse_data                                              *)
(*                                                                         *)
(* A payload is [kind, keys, page, rows]: kind is "none" (None), "dict",   *)
(* or "other" (a non-empty value that is not a mapping); keys is the set   *)
(* of keys among page and rows that a dict payload holds (total and        *)
(* records are never supplied, so their defaults are used); page is        *)
(* [t, s] with t in dict/int/str/other; rows is [t, items, n] with t in    *)
(* list/str/int/none, items the rows of a list and n the length of a str.  *)
(* A row is [t, hasCell, cell]: t is "dict" for a mapping, "none" for a    *)
(* null and "int" for a number.                                            *)

EmptyPage == [shape |-> "empty", page |-> 0, total |-> 0, records |-> 0]

Parsed(list, page) == [raised |-> FALSE, lof_list |-> list, page_info |-> page]

\* An exception leaves _parse_data, and so the constructor.
Raised == [raised |-> TRUE, lof_list |-> <<>>, page_info |-> EmptyPage]

\* len(rows): TypeError for an int or None
LenRaises(raw) == "rows" \in raw.keys /\ raw.rows.t \in {"int", "none"}

LenRows(raw) ==
    IF "rows" \notin raw.keys THEN 0
    ELSE IF raw.rows.t = "list" THEN Len(raw.rows.items)
    ELSE raw.rows.n

\* lines 67-89: [raised, page_info]
ExtractPageInfo(raw) ==
    IF "page" \in raw.keys
    THEN IF raw.page.t = "dict"
         THEN [raised |-> FALSE,
               page_info |-> [shape |-> "object", page |-> 0, total |-> 0,
                              records |-> 0]]
         ELSE IF raw.page.t \in {"int", "str"}
         THEN IF (raw.page.t = "str" /\ IntOfStr(raw.page.s) # "") \/ LenRaises(raw)
              THEN [raised |-> TRUE, page_info |-> EmptyPage]
              ELSE [raised |-> FALSE,
                    page_info |-> [shape |-> "scalar", page |-> 1, total |-> 1,
                                   records |-> LenRows(raw)]]
         ELSE [raised |-> FALSE, page_info |-> EmptyPage]
    ELSE IF "rows" \in raw.keys
    THEN IF LenRaises(raw)
         THEN [raised |-> TRUE, page_info |-> EmptyPage]
         ELSE [raised |-> FALSE,
               page_info |-> [shape |-> "inferred", page |-> 1, total |-> 1,
                              records |-> LenRows(raw)]]
    ELSE [raised |-> FALSE, page_info |-> EmptyPage]

\* for row in rows: if 'cell' in row: self.lof_list.append(row['cell'])
RECURSIVE ExtractCells(_)
ExtractCells(items) ==
    IF items = <<>> THEN <<>>
    ELSE (IF Head(items).hasCell THEN <<Head(items).cell>> ELSE <<>>)
         \o ExtractCells(Tail(items))

\* 'cell' in row: TypeError for a row that is None or a number
RowRaises(row) == row.t \in {"none", "int"}

\* lines 92-95: [raised, lof_list].  Iterating an int or None is a
\* TypeError; the items of a str are single characters, none of which
\* contains 'cell'.
ExtractRows(raw) ==
    IF "rows" \notin raw.keys THEN [raised |-> FALSE, lof_list |-> <<>>]
    ELSE IF raw.rows.t \in {"int", "none"} THEN [raised |-> TRUE, lof_list |-> <<>>]
    ELSE IF raw.rows.t = "str" THEN [raised |-> FALSE, lof_list |-> <<>>]
    ELSE IF \E i \in 1..Len(raw.rows.items) : RowRaises(raw.rows.items[i])
    THEN [raised |-> TRUE, lof_list |-> <<>>]
    ELSE [raised |-> FALSE, lof_list |-> ExtractCells(raw.rows.items)]

NoSort == "None"

\* if not self.raw_data
Falsy(raw) == raw.kind = "none" \/ (raw.kind = "dict" /\ raw.keys = {})

_parse_data(raw, sb) ==
    IF Falsy(raw) THEN Parsed(<<>>, EmptyPage)
    ELSE IF raw.kind # "dict" THEN Parsed(<<>>, EmptyPage)
    ELSE LET pg == ExtractPageInfo(raw)
             rw == ExtractRows(raw)
         IN  IF pg.raised \/ rw.raised THEN Raised
             ELSE IF rw.lof_list # <<>> /\ sb # NoSort
             THEN Parsed(_sort_lof_list(rw.lof_list, sb), pg.page_info)
             ELSE Parsed(rw.lof_list, pg.page_info)

-----------------------------------------------------------------------------
(* Handler actions *)

\* LOFDataHandler(json_data, sort_by): __init__ with _parse_data
Construct ==
    /\ hpc = "new"
    /\ LET r == _parse_data(raw_data, sort_by)
       IN  /\ hpc' = IF r.raised THEN "raised" ELSE "parsed"
           /\ lof_list' = r.lof_list
           /\ page_info' = r.page_info
    /\ UNCHANGED <<raw_data, sort_by, struct_array, deserve, qualified, called>>
    /\ UNCHANGED <<dvars, pvars>>

GetFundStructArray ==
    /\ hpc = "parsed"
    /\ "struct" \notin called
    /\ struct_array' = get_fund_struct_array(lof_list)
    /\ called' = called \cup {"struct"}
    /\ UNCHANGED <<raw_data, sort_by, lof_list, page_info, hpc, deserve, qualified>>
    /\ UNCHANGED <<dvars, pvars>>

GetDeserveArbitrageFund ==
    /\ hpc = "parsed"
    /\ "deserve" \notin called
    /\ deserve' = get_deserve_arbitrage_fund(lof_list)
    /\ called' = called \cup {"deserve"}
    /\ UNCHANGED <<raw_data, sort_by, lof_list, page_info, hpc, struct_array,
                   qualified>>
    /\ UNCHANGED <<dvars, pvars>>

IsQualifiedFund ==
    /\ hpc = "parsed"
    /\ "qualified" \notin called
    /\ qualified' = [i \in 1..Len(lof_list) |-> _is_qualified_fund(lof_list[i])]
    /\ called' = called \cup {"qualified"}
    /\ UNCHANGED <<raw_data, sort_by, lof_list, page_info, hpc, struct_array,
                   deserve>>
    /\ UNCHANGED <<dvars, pvars>>

-----------------------------------------------------------------------------
(* DatabaseManager: the connection *)

\* is_connected: self.conn is set and ping(reconnect=False) succeeds
is_connected(c) == c = "live"

\* connect(): a fresh connection and cursor, or False when connecting fails
\* (self.conn then keeps its old value)
connect(c, reachable) ==
    IF reachable THEN [ok |-> TRUE, conn |-> "live"]
    ELSE [ok |-> FALSE, conn |-> c]

ensure_connection_ignoring_connect(c, reachable) ==
    IF ~is_connected(c)
    THEN LET r == connect(c, reachable)
         IN  [ok |-> TRUE, conn |-> r.conn,
              how |-> IF r.ok THEN "reconnected" ELSE "failed"]
    ELSE [ok |-> TRUE, conn |-> c, how |-> "live"]

\* ensure_connection: [ok, conn, how]
ensure_connection(c, reachable) ==
    IF ~is_connected(c)
    THEN LET r == connect(c, reachable)
         IN  [ok |-> r.ok, conn |-> r.conn,
              how |-> IF r.ok THEN "reconnected" ELSE "failed"]
    ELSE [ok |-> TRUE, conn |-> c, how |-> "live"]

\* conn_params["autocommit"] (db_utils.py:44): every statement that succeeds
\* is committed at once; commit() and rollback() then change nothing.
autocommit == TRUE

-----------------------------------------------------------------------------
(* The tables (create_tables) and INSERT ... ON DUPLICATE KEY UPDATE *)

TicksPerDay == 2
DateOf(t) == t \div TicksPerDay

\* UNIQUE KEY unique_fund (fund_id, fund_nm, nav_dt)
unique_fund == {"fund_id", "fund_nm", "nav_dt"}

\* ai_analyses declares no unique key besides the auto-increment id.
ai_analyses_unique == {}

\* fund_id and fund_nm are NOT NULL
FundsNotNull == {"fund_id", "fund_nm"}

\* The columns SET by ON DUPLICATE KEY UPDATE of save_funds (date and
\* created_at are set too).
FundsUpdated ==
    {"price", "pre_close", "price_dt", "increase_rt", "volume", "amount",
     "amount_incr", "fund_nav", "estimate_value", "discount_rt", "index_id",
     "index_nm", "index_increase_rt", "apply_fee", "apply_status", "redeem_fee",
     "redeem_status", "turnover_rt"}

\* Two rows collide on a unique key when every key column is equal and not
\* NULL (a unique index admits any number of NULLs).
KeyCollides(key, a, b) ==
    key # {} /\ \A k \in key : a[k] # NoneVal /\ a[k] = b[k]

\* The position of the funds row a new row collides with, or 0.
FundsConflict(table, fund) ==
    LET hits == {i \in 1..Len(table) : KeyCollides(unique_fund, table[i].c, fund)}
    IN  IF hits = {} THEN 0 ELSE CHOOSE i \in hits : TRUE

\* created_at = CURRENT_TIMESTAMP in the ON DUPLICATE KEY UPDATE clause
created_at_on_update(old, t) == t

\* One INSERT ... ON DUPLICATE KEY UPDATE of save_funds, executed at time t.
UpsertFund(table, fund, t) ==
    LET i == FundsConflict(table, fund)
    IN  IF i = 0
        THEN Append(table, [id |-> Len(table) + 1, c |-> fund, date |-> DateOf(t),
                            created_at |-> t])
        ELSE [table EXCEPT ![i] =
                [id |-> @.id,
                 c |-> [f \in FieldSet |-> IF f \in FundsUpdated THEN fund[f]
                                           ELSE @.c[f]],
                 date |-> DateOf(t),
                 created_at |-> created_at_on_update(@.created_at, t)]]

\* The statement fails with a data error (NULL in a NOT NULL column).
FundRejected(fund) == \E k \in FundsNotNull : fund[k] = NoneVal

\* The loop of save_funds from statement i on: [table, attempted, stmts, cause].
\* lostAt is the statement during which the connection is lost (0: never).
RECURSIVE ExecFunds(_, _, _, _, _)
ExecFunds(table, batch, i, lostAt, t) ==
    IF i > Len(batch)
    THEN [table |-> table, attempted |-> i - 1, stmts |-> i - 1, cause |-> ""]
    ELSE IF lostAt = i
    THEN [table |-> table, attempted |-> i, stmts |-> i - 1, cause |-> "lost"]
    ELSE IF FundRejected(batch[i])
    THEN [table |-> table, attempted |-> i, stmts |-> i - 1, cause |-> "data"]
    ELSE ExecFunds(UpsertFund(table, batch[i], t), batch, i + 1, lostAt, t)

\* The position of the ai_analyses row a new row collides with, or 0.
AnalysisConflict(table, row) ==
    LET hits == {i \in 1..Len(table) : KeyCollides(ai_analyses_unique, table[i], row)}
    IN  IF hits = {} THEN 0 ELSE CHOOSE i \in hits : TRUE

\* The INSERT ... ON DUPLICATE KEY UPDATE of save_ai_analysis.
UpsertAnalysis(table, row, t) ==
    LET i == AnalysisConflict(table, row)
    IN  IF i = 0
        THEN Append(table, [id |-> Len(table) + 1,
                            analysis_content |-> row.analysis_content,
                            fund_name |-> row.fund_name,
                            fund_code |-> row.fund_code,
                            nav_dt |-> row.nav_dt,
                            created_at |-> t, update_at |-> t, date |-> row.date])
        ELSE [table EXCEPT ![i] =
                [@ EXCEPT !.analysis_content = row.analysis_content,
                          !.fund_name = row.fund_name,
                          !.nav_dt = row.nav_dt,
                          !.date = row.date,
                          !.update_at = t]]

-----------------------------------------------------------------------------
(* DatabaseManager: the five persistence operations                        *)
(*                                                                         *)
(* Each returns [conn, table, res]: the connection and the table after the *)
(* call, and res, what the call did: ensured is how ensure_connection      *)
(* ended, attempted the number of execute() calls, stmts the number that   *)
(* succeeded, cause why the first failing one failed, raised whether an    *)
(* exception left the method, ok/list/map the value returned.              *)

Res(op, ensured, attempted, stmts, batchLen, cause, raised, ok, list, map) ==
    [op |-> op, ensured |-> ensured, attempted |-> attempted, stmts |-> stmts,
     batchLen |-> batchLen, cause |-> cause, raised |-> raised, ok |-> ok,
     list |-> list, map |-> map]

\* The connection after a statement was attempted on it.
ConnAfter(c, cause) ==
    IF cause = "lost" /\ c = "live" THEN "dropped" ELSE c

\* A statement on a connection that is not live fails at once.
LostAt(c, lostAt) == IF c = "live" THEN lostAt ELSE 1

\* self.conn.rollback() raises on a connection that is not live.
RollbackRaises(c) == c # "live"

save_funds(c, table, batch, t, reachable, lostAt) ==
    LET e == ensure_connection(c, reachable)
    IN  IF ~e.ok
        THEN [conn |-> e.conn, table |-> table,
              res |-> Res("save_funds", e.how, 0, 0, Len(batch), "", FALSE, FALSE,
                          <<>>, <<>>)]
        ELSE LET x == ExecFunds(table, batch, 1, LostAt(e.conn, lostAt), t)
                 c2 == ConnAfter(e.conn, x.cause)
                 durable == IF autocommit THEN x.table ELSE table
             IN  IF x.cause = ""
                 THEN [conn |-> c2, table |-> x.table,
                       res |-> Res("save_funds", e.how, x.attempted, x.stmts,
                                   Len(batch), "", FALSE, TRUE, <<>>, <<>>)]
                 ELSE [conn |-> c2, table |-> durable,
                       res |-> Res("save_funds", e.how, x.attempted, x.stmts,
                                   Len(batch), x.cause, RollbackRaises(c2), FALSE,
                                   <<>>, <<>>)]

\* if not nav_dt: nav_dt = datetime.now().date()
DateVal(d) == [t |-> "date", s |-> <<>>, n |-> d]
NavOrToday(nav_dt, t) ==
    IF nav_dt = NoneVal \/ nav_dt = EmptyStr THEN DateVal(DateOf(t)) ELSE nav_dt

save_ai_analysis(c, table, content, name, code, nav_dt, t, reachable, lostAt) ==
    LET e == ensure_connection(c, reachable)
    IN  IF ~e.ok
        THEN [conn |-> e.conn, table |-> table,
              res |-> Res("save_ai_analysis", e.how, 0, 0, 1, "", FALSE, FALSE,
                          <<>>, <<>>)]
        ELSE LET lost == LostAt(e.conn, lostAt) = 1
                 c2 == ConnAfter(e.conn, IF lost THEN "lost" ELSE "")
                 row == [analysis_content |-> content, fund_name |-> name,
                         fund_code |-> code, nav_dt |-> NavOrToday(nav_dt, t),
                         date |-> DateOf(t)]
             IN  IF ~lost
                 THEN [conn |-> c2, table |-> UpsertAnalysis(table, row, t),
                       res |-> Res("save_ai_analysis", e.how, 1, 1, 1, "", FALSE,
                                   TRUE, <<>>, <<>>)]
                 ELSE [conn |-> c2, table |-> table,
                       res |-> Res("save_ai_analysis", e.how, 1, 0, 1, "lost",
                                   RollbackRaises(c2), FALSE, <<>>, <<>>)]

\* SELECT * FROM ai_analyses WHERE date = %s, each row as an AIAnalysis
AnalysesOfDate(table, d) == SelectSeq(table, LAMBDA r : r.date = d)

\* query_to_model(AIAnalysis, "SELECT * FROM ai_analyses WHERE date = %s",
\* (date,)).  detected: the error text names the lost connection ("Lost
\* connection" or 2013); reachable2 and lost2 are the reconnect and the
\* second execute.
query_to_model(c, table, d, reachable, lost1, detected, reachable2, lost2) ==
    LET e == ensure_connection(c, reachable)
        found == AnalysesOfDate(table, d)
    IN  IF ~e.ok
        THEN [conn |-> e.conn, table |-> table,
              res |-> Res("query_to_model", e.how, 0, 0, 1, "", FALSE, TRUE,
                          <<>>, <<>>)]
        ELSE IF LostAt(e.conn, IF lost1 THEN 1 ELSE 0) # 1
        THEN [conn |-> e.conn, table |-> table,
              res |-> Res("query_to_model", e.how, 1, 1, 1, "", FALSE, TRUE,
                          found, <<>>)]
        ELSE LET c2 == ConnAfter(e.conn, "lost")
                 r == connect(c2, reachable2)
             IN  IF ~detected \/ ~r.ok
                 THEN [conn |-> c2, table |-> table,
                       res |-> Res("query_to_model", e.how, 1, 0, 1, "lost", FALSE,
                                   TRUE, <<>>, <<>>)]
                 ELSE IF lost2
                 THEN [conn |-> ConnAfter(r.conn, "lost"), table |-> table,
                       res |-> Res("query_to_model", e.how, 2, 0, 1, "lost", FALSE,
                                   TRUE, <<>>, <<>>)]
                 ELSE [conn |-> r.conn, table |-> table,
                       res |-> Res("query_to_model", e.how, 2, 1, 1, "lost", FALSE,
                                   TRUE, found, <<>>)]

\* SELECT fund_id, fund_nm, estimate_value, price, apply_status
FundInfo(row) ==
    [f \in {"fund_id", "fund_nm", "estimate_value", "price", "apply_status"} |->
        row.c[f]]

\* The key of fund_dict: fund['fund_id'] in get_funds_by_date,
\* (fund['fund_id'], fund['fund_nm']) in get_funds_by_nav_dt.
FundKey(op, row) ==
    IF op = "get_funds_by_date" THEN row.c["fund_id"]
    ELSE <<row.c["fund_id"], row.c["fund_nm"]>>

\* The mapping that would keep the first row of a key.
FundDictFirst(op, rows) ==
    [k \in {FundKey(op, rows[i]) : i \in 1..Len(rows)} |->
        LET at == {i \in 1..Len(rows) : FundKey(op, rows[i]) = k}
        IN  FundInfo(rows[CHOOSE i \in at : \A j \in at : i <= j])]

\* fund_dict[key] = fund for every row of the result set, in order
FundDict(op, rows) ==
    [k \in {FundKey(op, rows[i]) : i \in 1..Len(rows)} |->
        LET at == {i \in 1..Len(rows) : FundKey(op, rows[i]) = k}
        IN  FundInfo(rows[CHOOSE i \in at : \A j \in at : j <= i])]

\* The body shared by the two lookups of funds; found is the result set.
FundLookup(op, c, table, found, reachable, lost) ==
    LET e == ensure_connection(c, reachable)
    IN  IF ~e.ok
        THEN [conn |-> e.conn, table |-> table,
              res |-> Res(op, e.how, 0, 0, 1, "", FALSE, TRUE, <<>>, <<>>)]
        ELSE IF LostAt(e.conn, IF lost THEN 1 ELSE 0) = 1
        THEN [conn |-> ConnAfter(e.conn, "lost"), table |-> table,
              res |-> Res(op, e.how, 1, 0, 1, "lost", FALSE, TRUE, <<>>, <<>>)]
        ELSE [conn |-> e.conn, table |-> table,
              res |-> Res(op, e.how, 1, 1, 1, "", FALSE, TRUE, <<>>,
                          FundDict(op, found))]

\* WHERE date = %s
get_funds_by_date(c, table, d, reachable, lost) ==
    FundLookup("get_funds_by_date", c, table,
               SelectSeq(table, LAMBDA r : r.date = d), reachable, lost)

\* WHERE nav_dt = %s (never true of a NULL nav_dt)
get_funds_by_nav_dt(c, table, nav_dt, reachable, lost) ==
    FundLookup("get_funds_by_nav_dt", c, table,
               SelectSeq(table, LAMBDA r : r.c["nav_dt"] # NoneVal
                                           /\ r.c["nav_dt"] = nav_dt),
               reachable, lost)

-----------------------------------------------------------------------------
(* Persistence actions and the environment *)

MaxOps == 2         \* persistence operations in a run of the model
MaxClock == 2       \* clock ticks
MaxBatch == 2       \* snapshots in one save_funds call
MaxLongBatch == 3   \* snapshots in one save_funds call, where a row fails
MaxFundRows == 4    \* rows of funds
MaxAnalysisRows == 2  \* rows of ai_analyses

NoOp == Res("", "", 0, 0, 0, "", FALSE, FALSE, <<>>, <<>>)

\* The market fields the upstream carries at time t.
MarketAt(t) == Str(<<"v", t>>)

\* The snapshot of a fund fetched at time t: every mutable field carries
\* the market text of that time.
Snapshot(fund_id, nav_dt, t) ==
    [f \in FieldSet |->
        IF f = "fund_id" THEN fund_id
        ELSE IF f = "fund_nm" THEN Str(<<"N1">>)
        ELSE IF f = "nav_dt" THEN nav_dt
        ELSE MarketAt(t)]

F1 == Str(<<"F1">>)
D1 == Str(<<"D1">>)

\* The snapshots of one fund a fetch at time t can produce: with a
\* net-value date, without one (nav_dt is None), and with a null fund_id.
DBSnapshots(t) ==
    {Snapshot(F1, D1, t), Snapshot(F1, NoneVal, t), Snapshot(NoneVal, D1, t)}

\* The analyses the collaborator returns at time t.
ContentAt(t) == Str(<<"c", t>>)
NameAt(t) == Str(<<"N", t>>)

\* What the environment does to the statement of a call: [lost1, detected,
\* reachable2, lost2].  lost1: the connection is lost while the statement
\* runs; detected: the error text names the loss ("Lost connection", 2013);
\* reachable2: the server accepts a new connection right after; lost2: a
\* second execute would fail too.
Fate(lost1, detected, reachable2, lost2) ==
    [lost1 |-> lost1, detected |-> detected, reachable2 |-> reachable2,
     lost2 |-> lost2]

NoFate == Fate(FALSE, FALSE, FALSE, FALSE)

\* The fates query_to_model tells apart: the statement succeeds; the loss
\* does not show in the error text; it is detected, and then the reconnect
\* fails, or the second execute fails, or it succeeds.
QueryFates ==
    {NoFate,
     Fate(TRUE, FALSE, FALSE, FALSE),
     Fate(TRUE, TRUE, FALSE, FALSE),
     Fate(TRUE, TRUE, TRUE, TRUE),
     Fate(TRUE, TRUE, TRUE, FALSE)}

\* The fates offered to the two lookups of funds: the statement succeeds, or
\* the connection is lost, the error names the loss and a reconnect and a
\* second execute would succeed.
LookupFates == {NoFate, Fate(TRUE, TRUE, TRUE, FALSE)}

\* The fate of get_funds_by_date(date), with the date it was asked for.
AskedFor(f, d) ==
    [lost1 |-> f.lost1, detected |-> f.detected, reachable2 |-> f.reachable2,
     lost2 |-> f.lost2, date |-> d]

\* A persistence call returns: env is the fate the environment dealt it.
Returns(r, env) ==
    /\ conn' = r.conn
    /\ last' = [n |-> last.n + 1, r |-> r.res, env |-> env]
    /\ UNCHANGED <<now, hvars>>

DoneIn(r, env) == Returns(r, env) /\ UNCHANGED pvars

\* The fate recorded for a save: when its statement lost the connection, the
\* error named the loss and the server could be reached again at once.
SaveFate(r) ==
    IF r.res.cause = "lost" THEN Fate(TRUE, TRUE, TRUE, FALSE) ELSE NoFate

\* A save returns.
Done(r) == DoneIn(r, SaveFate(r))

\* Whether the server can be reached matters only to a call that has to
\* reconnect.
Reachability == IF is_connected(conn) THEN {TRUE} ELSE BOOLEAN

\* save_funds on a batch of at most maxLen snapshots
SaveFundsOf(maxLen) ==
    /\ last.n < MaxOps
    /\ \E batch \in SeqsUpTo(DBSnapshots(now), maxLen), reachable \in Reachability :
       \E lostAt \in 0..Len(batch) :
          /\ Len(funds) + Len(batch) <= MaxFundRows
          /\ LET r == save_funds(conn, funds, batch, now, reachable, lostAt)
             IN  funds' = r.table /\ Done(r)
          /\ UNCHANGED ai_analyses

SaveFunds == SaveFundsOf(MaxBatch)

SaveFundsLong == SaveFundsOf(MaxLongBatch)

SaveAiAnalysis ==
    /\ last.n < MaxOps
    /\ Len(ai_analyses) < MaxAnalysisRows
    /\ \E nav_dt \in {D1, NoneVal}, reachable \in Reachability, lostAt \in 0..1 :
          LET r == save_ai_analysis(conn, ai_analyses, ContentAt(now), NameAt(now),
                                    F1, nav_dt, now, reachable, lostAt)
          IN  ai_analyses' = r.table /\ Done(r)
    /\ UNCHANGED funds

QueryToModel ==
    /\ last.n < MaxOps
    /\ \E d \in 0..DateOf(MaxClock), reachable \in Reachability, f \in QueryFates :
          DoneIn(query_to_model(conn, ai_analyses, d, reachable, f.lost1,
                                f.detected, f.reachable2, f.lost2), f)
    /\ UNCHANGED <<funds, ai_analyses>>

GetFundsByDate ==
    /\ last.n < MaxOps
    /\ \E d \in 0..DateOf(MaxClock), reachable \in Reachability, f \in LookupFates :
          DoneIn(get_funds_by_date(conn, funds, d, reachable, f.lost1),
                 AskedFor(f, d))
    /\ UNCHANGED <<funds, ai_analyses>>

GetFundsByNavDt ==
    /\ last.n < MaxOps
    /\ \E reachable \in Reachability, f \in LookupFates :
          DoneIn(get_funds_by_nav_dt(conn, funds, D1, reachable, f.lost1), f)
    /\ UNCHANGED <<funds, ai_analyses>>

\* The server or the network drops the connection between two calls.
ConnectionDrop ==
    /\ conn = "live"
    /\ conn' = "dropped"
    /\ UNCHANGED <<funds, ai_analyses, now, last, hvars, pvars>>

Tick ==
    /\ now < MaxClock
    /\ now' = now + 1
    /\ UNCHANGED <<conn, funds, ai_analyses, last, hvars, pvars>>

\* The database after DatabaseManager(...): no connection yet; the tables
\* exist and are empty.
DBNew ==
    /\ conn = "none"
    /\ funds = <<>>
    /\ ai_analyses = <<>>
    /\ now = 0
    /\ last = [n |-> 0, r |-> NoOp, env |-> NoFate]

-----------------------------------------------------------------------------
(* Inputs *)

MaxSortLen == 3     \* rows of a payload whose sort is examined
MaxRows == 3        \* rows of a payload whose projections are examined
MaxParseRows == 2   \* rows of a payload whose shape is examined

\* A field the upstream row does not carry (only used to enumerate cells).
Absent == [t |-> "absent", s |-> <<>>, n |-> 0]

\* The cell holding the fields of full that are not Absent.
MkCell(full) == [f \in {g \in DOMAIN full : full[g] # Absent} |-> full[f]]

RowOf(c) == [t |-> "dict", hasCell |-> TRUE, cell |-> c]
RowWithoutCell ==
    [t |-> "dict", hasCell |-> FALSE, cell |-> MkCell([fund_id |-> Absent])]
\* A row that is a JSON null, and one that is a number
NullRow == [t |-> "none", hasCell |-> FALSE, cell |-> MkCell([fund_id |-> Absent])]
IntRow == [t |-> "int", hasCell |-> FALSE, cell |-> MkCell([fund_id |-> Absent])]

NoPage == [t |-> "other", s |-> <<>>]
NoRows == [t |-> "none", items |-> <<>>, n |-> 0]
ListRows(items) == [t |-> "list", items |-> items, n |-> 0]

NonePayload == [kind |-> "none", keys |-> {}, page |-> NoPage, rows |-> NoRows]
OtherPayload == [kind |-> "other", keys |-> {}, page |-> NoPage, rows |-> NoRows]
DictPayload(keys, page, rows) ==
    [kind |-> "dict", keys |-> keys, page |-> page, rows |-> rows]
RowsPayload(items) == DictPayload({"rows"}, NoPage, ListRows(items))

\* Rate texts
R30p == Str(<<"3", ".", "0", "%">>)
R399p == Str(<<"3", ".", "9", "9", "%">>)
R4 == Str(<<"4">>)
R40p == Str(<<"4", ".", "0", "%">>)
R401 == Str(<<"4", ".", "0", "1">>)
R45p == Str(<<"4", ".", "5", "%">>)
R5 == Str(<<"5">>)
R50p == Str(<<"5", ".", "0", "%">>)
R10p == Str(<<"1", "0", "%">>)
RNeg15p == Str(<<"-", "1", ".", "5", "%">>)
RDash == Str(<<"-">>)
RBad == Str(<<"b", "a", "d">>)

SortRates == {Absent, RDash, NoneVal, R30p, R50p, R5, RNeg15p}
SortCells ==
    {MkCell([discount_rt |-> d, premium_rt |-> p]) :
        d \in SortRates, p \in {Absent, Str(<<"2", "%">>)}}

QualifyRates ==
    {Absent, EmptyStr, NoneVal, RDash, RBad, R399p, R4, R40p, R401, R45p, R5,
     R10p, RNeg15p, Num(400), Num(450)}
QualifyCells ==
    {MkCell([apply_status |-> a, redeem_status |-> r, discount_rt |-> d]) :
        a \in {Absent, EmptyStr, SUSPEND_APPLY, Str(<<"kaifang-shengou">>)},
        r \in {Absent, EmptyStr, OPEN_REDEEM, Str(<<"zanting-shuhui">>)},
        d \in QualifyRates}

ProjectCells ==
    {MkCell([fund_id |-> Str(<<"F1">>), apply_status |-> a,
             redeem_status |-> OPEN_REDEEM, discount_rt |-> d, nav_dt |-> n]) :
        a \in {Absent, SUSPEND_APPLY},
        d \in {R40p, R45p, R5},
        n \in {Absent, Str(<<"D1">>)}}

ParseCells ==
    {MkCell([fund_id |-> Str(<<"F1">>), discount_rt |-> d]) : d \in {R45p, R5}}
PageVals ==
    {[t |-> "dict", s |-> <<>>], [t |-> "int", s |-> <<>>],
     [t |-> "str", s |-> <<"1">>], [t |-> "str", s |-> <<"a", "b", "c">>],
     [t |-> "other", s |-> <<>>]}
RowsVals ==
    {[t |-> "str", items |-> <<>>, n |-> 10], [t |-> "int", items |-> <<>>, n |-> 0],
     [t |-> "none", items |-> <<>>, n |-> 0]}
    \cup {ListRows(items) :
            items \in SeqsUpTo({RowOf(c) : c \in ParseCells}
                                   \cup {RowWithoutCell, NullRow, IntRow},
                               MaxParseRows)}
ParsePayloads ==
    {NonePayload, OtherPayload}
    \cup {DictPayload({}, NoPage, NoRows)}
    \cup {DictPayload({"page"}, pg, NoRows) : pg \in PageVals}
    \cup {DictPayload({"rows"}, NoPage, rw) : rw \in RowsVals}
    \cup {DictPayload({"page", "rows"}, pg, rw) : pg \in PageVals, rw \in RowsVals}

-----------------------------------------------------------------------------
(* The service (main.py): what the collaborators of a run hold *)

\* The cells the two upstream sources serve: a LOF fund that is eligible,
\* with and without a net-value date, and a QDII fund that is not eligible.
CellOf(fund_id, nav_dt, rate) ==
    MkCell([fund_id |-> fund_id, fund_nm |-> Str(<<"N1">>), nav_dt |-> nav_dt,
            apply_status |-> Str(<<"kaifang-shengou">>),
            redeem_status |-> OPEN_REDEEM, discount_rt |-> rate, price |-> R5,
            estimate_value |-> R4])

F2 == Str(<<"F2">>)

\* [lof, qdii]: the payloads of fetch_lof_data and fetch_qdii_data when
\* their requests succeed
Upstreams ==
    {[lof |-> RowsPayload(<<RowOf(CellOf(F1, n, R45p))>>),
      qdii |-> RowsPayload(<<RowOf(CellOf(F2, D1, R30p))>>)] : n \in {D1, Absent}}

\* An element of the JSON array the collaborator is asked for: keys is the
\* set of keys it carries.
ResultKeys == {"fund_name", "fund_code", "analysis_content", "nav_dt"}
AiResult(keys, code) ==
    [t |-> "dict", keys |-> keys, fund_code |-> code, fund_name |-> Str(<<"N1">>),
     analysis_content |-> Str(<<"c", code.s[1]>>), nav_dt |-> D1]

\* An element of the array that is a JSON null
NullResult == [t |-> "none", keys |-> {}]

\* 'key in result' raises TypeError for a result that is None or a number.
ResultRaises(result) == result.t \in {"none", "int"}

\* The answer of the collaborator to send_message: the call raises, or
\* returns [status, content]; json is what json.loads makes of the content:
\* "error" (JSONDecodeError), "list" (items) or "other" (any other value).
Answer(raises, status, json, items) ==
    [raises |-> raises, status |-> status, json |-> json, items |-> items]

Answers ==
    {Answer(TRUE, "none", "error", <<>>),
     Answer(FALSE, "completed", "error", <<>>),
     Answer(FALSE, "completed", "other", <<>>),
     Answer(FALSE, "completed", "list", <<>>),
     Answer(FALSE, "completed", "list", <<AiResult(ResultKeys, F1)>>),
     Answer(FALSE, "completed", "list",
            <<AiResult({"fund_code"}, F2), AiResult(ResultKeys, F1)>>),
     Answer(FALSE, "completed", "list",
            <<AiResult(ResultKeys, F2), AiResult(ResultKeys, F1)>>),
     Answer(FALSE, "completed", "list", <<NullResult, AiResult(ResultKeys, F1)>>),
     Answer(FALSE, "failed", "error", <<>>),
     Answer(FALSE, "failed", "list", <<AiResult(ResultKeys, F1)>>)}

Worlds ==
    {[credentials |-> c, upstream |-> u, answer |-> a] :
        c \in BOOLEAN, u \in Upstreams, a \in Answers}

-----------------------------------------------------------------------------
(* The service (main.py): fetch, run_analysis, the trigger *)

\* A row that is a character of a str (list.extend of a str)
StrRow == [t |-> "str", hasCell |-> FALSE, cell |-> MkCell([fund_id |-> Absent])]

\* merged_data['rows'].extend(data['rows']): [raised, items]
ExtendRows(data) ==
    IF data.kind # "dict" \/ "rows" \notin data.keys
    THEN [raised |-> FALSE, items |-> <<>>]
    ELSE IF data.rows.t \in {"int", "none"} THEN [raised |-> TRUE, items |-> <<>>]
    ELSE IF data.rows.t = "str"
    THEN [raised |-> FALSE, items |-> [i \in 1..data.rows.n |-> StrRow]]
    ELSE [raised |-> FALSE, items |-> data.rows.items]

\* A merge that builds the merged payload even from two missing payloads.
merge_fund_data_always(lof_data, qdii_data) ==
    [raised |-> FALSE,
     data |-> DictPayload({"page", "rows"}, [t |-> "int", s |-> <<>>],
                          ListRows(ExtendRows(lof_data).items
                                   \o ExtendRows(qdii_data).items))]

\* merge_fund_data(lof_data, qdii_data): [raised, data]
merge_fund_data(lof_data, qdii_data) ==
    IF Falsy(lof_data) THEN [raised |-> FALSE, data |-> qdii_data]
    ELSE IF Falsy(qdii_data) THEN [raised |-> FALSE, data |-> lof_data]
    ELSE LET a == ExtendRows(lof_data)
             b == ExtendRows(qdii_data)
         IN  IF a.raised \/ b.raised THEN [raised |-> TRUE, data |-> NonePayload]
             ELSE [raised |-> FALSE,
                   data |-> DictPayload({"page", "rows"}, [t |-> "int", s |-> <<>>],
                                        ListRows(a.items \o b.items))]

\* fetch_all_fund_data(): a request that fails gives None
fetch_all_fund_data(upstream, lofOk, qdiiOk) ==
    merge_fund_data(IF lofOk THEN upstream.lof ELSE NonePayload,
                    IF qdiiOk THEN upstream.qdii ELSE NonePayload)

RunIds == {"r1", "r2"}

IdleRun ==
    [pc |-> "idle", origin |-> "", response |-> "", data |-> NonePayload,
     k |-> 0, log |-> <<>>, end |-> ""]

\* An entry of a run's log: a call the run made and how it came back.
Event(op, ok, raised) == [op |-> op, ok |-> ok, raised |-> raised]

\* The run ends (run_analysis returns; it never raises).
Ended(run, end) == [run EXCEPT !.pc = "done", !.end = end]

\* trigger_analysis: the response of POST /api/trigger-analysis; started is
\* whether threading.Thread(...).start() returned
trigger_analysis_failing(started) == "500"

trigger_analysis(started) == IF started THEN "success" ELSE "500"

\* if not coze_api_token or not bot_id: return
credentials_unchecked(w) == TRUE

credentials_present(w) == w.credentials

\* json.loads(response['content']) and the branch taken on it: the run
\* after the parse
parse_lenient(run, answer) ==
    [run EXCEPT !.pc = "save", !.k = 1]

parse_response(run, answer) ==
    IF answer.json = "error" THEN Ended(run, "parsefail")
    ELSE IF answer.json = "list" /\ Len(answer.items) > 0
    THEN [run EXCEPT !.pc = "save", !.k = 1]
    ELSE Ended(run, "noresults")

\* The id the next run gets.
NextRun == IF runs["r1"].pc = "idle" THEN "r1" ELSE "r2"

\* The scheduler starts the daily job (at most one instance of the job
\* runs at a time).
Scheduled(id) ==
    /\ server = "live"
    /\ id = NextRun
    /\ runs[id].pc = "idle"
    /\ \A o \in RunIds : runs[o].origin = "schedule" => runs[o].pc = "done"
    /\ runs' = [runs EXCEPT ![id] = [@ EXCEPT !.pc = "fetch", !.origin = "schedule"]]
    /\ UNCHANGED <<world, server, reply, hvars, dvars>>

\* POST /api/trigger-analysis
TriggerAnalysis(id) ==
    /\ server = "live"
    /\ id = NextRun
    /\ runs[id].pc = "idle"
    /\ \E started \in BOOLEAN :
          runs' = [runs EXCEPT ![id] =
                     [@ EXCEPT !.pc = IF started THEN "fetch" ELSE "nothread",
                               !.origin = "trigger",
                               !.response = trigger_analysis(started)]]
    /\ UNCHANGED <<world, server, reply, hvars, dvars>>

\* data = fetch_all_fund_data(); if data: ... else: log
Fetch(id) ==
    /\ runs[id].pc = "fetch"
    /\ \E lofOk, qdiiOk \in BOOLEAN :
          LET d == fetch_all_fund_data(world.upstream, lofOk, qdiiOk)
          IN  runs' = [runs EXCEPT ![id] =
                         IF d.raised THEN Ended(@, "error")
                         ELSE IF Falsy(d.data) THEN Ended(@, "nodata")
                         ELSE [@ EXCEPT !.pc = "persist", !.data = d.data]]
    /\ UNCHANGED <<world, server, reply, hvars, dvars>>

\* A persistence call made by a run returns (or raises).
RunCalled(id, r, run) ==
    /\ Returns(r, SaveFate(r))
    /\ runs' = [runs EXCEPT ![id] = run]
    /\ UNCHANGED <<world, server, reply>>

\* lof_handler = LOFDataHandler(data, sort_by='discount_rt');
\* funds_list = lof_handler.get_fund_struct_array();
\* db_manager.save_funds(funds_list); the result is not looked at.  An
\* exception ends the run in the outer handler.
Persist(id) ==
    /\ runs[id].pc = "persist"
    /\ LET h == _parse_data(runs[id].data, "discount_rt")
       IN  IF h.raised
           THEN /\ runs' = [runs EXCEPT ![id] = Ended(@, "error")]
                /\ UNCHANGED <<world, server, reply, hvars, dvars>>
           ELSE \E reachable \in Reachability, lostAt \in 0..1 :
                   LET funds_list == get_fund_struct_array(h.lof_list)
                       r == save_funds(conn, funds, funds_list, now, reachable, lostAt)
                       logged == [runs[id] EXCEPT !.log =
                                     Append(@, Event("save_funds", r.res.ok,
                                                     r.res.raised))]
                   IN  /\ funds' = r.table
                       /\ RunCalled(id, r, IF r.res.raised THEN Ended(logged, "error")
                                           ELSE [logged EXCEPT !.pc = "credentials"])
                       /\ UNCHANGED ai_analyses

\* deserve_funds, funds_str, then the check of COZE_API_TOKEN and COZE_BOT_ID
Credentials(id) ==
    /\ runs[id].pc = "credentials"
    /\ runs' = [runs EXCEPT ![id] =
                  IF credentials_present(world) THEN [@ EXCEPT !.pc = "ask"]
                  ELSE Ended(@, "aborted")]
    /\ UNCHANGED <<world, server, reply, hvars, dvars>>

\* response = client.send_message(question)
Ask(id) ==
    /\ runs[id].pc = "ask"
    /\ LET a == world.answer
           logged == [runs[id] EXCEPT !.log =
                         Append(@, Event("send_message", ~a.raises, a.raises))]
       IN  runs' = [runs EXCEPT ![id] =
                      IF a.raises THEN Ended(logged, "apierror")
                      ELSE [logged EXCEPT !.pc = "parse"]]
    /\ UNCHANGED <<world, server, reply, hvars, dvars>>

\* ai_results = json.loads(response['content'])
Parse(id) ==
    /\ runs[id].pc = "parse"
    /\ runs' = [runs EXCEPT ![id] = parse_response(@, world.answer)]
    /\ UNCHANGED <<world, server, reply, hvars, dvars>>

\* The run after the k-th element of ai_results was handled.
NextResult(run, items) ==
    IF run.k >= Len(items) THEN Ended(run, "saved") ELSE [run EXCEPT !.k = @ + 1]

\* One turn of "for result in ai_results": save_ai_analysis for an element
\* with the four keys, nothing for another.  An exception, of the key test
\* or of the save, ends the run in the handler of the collaborator call.
SaveResult(id) ==
    /\ runs[id].pc = "save"
    /\ LET items == world.answer.items
           k == runs[id].k
       IN  IF k <= Len(items) /\ ResultRaises(items[k])
           THEN /\ runs' = [runs EXCEPT ![id] = Ended(@, "apierror")]
                /\ UNCHANGED <<world, server, reply, hvars, dvars>>
           ELSE IF k > Len(items) \/ ~(ResultKeys \subseteq items[k].keys)
           THEN /\ runs' = [runs EXCEPT ![id] = NextResult(@, items)]
                /\ UNCHANGED <<world, server, reply, hvars, dvars>>
           ELSE \E reachable \in Reachability, lostAt \in 0..1 :
                   LET r == save_ai_analysis(conn, ai_analyses,
                                             items[k].analysis_content,
                                             items[k].fund_name, items[k].fund_code,
                                             items[k].nav_dt, now, reachable, lostAt)
                       logged == [runs[id] EXCEPT !.log =
                                     Append(@, Event("save_ai_analysis", r.res.ok,
                                                     r.res.raised))]
                   IN  /\ ai_analyses' = r.table
                       /\ RunCalled(id, r, IF r.res.raised THEN Ended(logged, "apierror")
                                           ELSE NextResult(logged, items))
                       /\ UNCHANGED funds

MaxRequests == 1    \* requests to GET /api/ai-analyses/{date}

\* The item of the response for one analysis row: the analysis joined with
\* fund_dict.get(fund_code, {}), each fund field with the default ''.
AnalysisItem(a, fund_dict) ==
    LET fund_info == IF a.fund_code \in DOMAIN fund_dict THEN fund_dict[a.fund_code]
                     ELSE <<>>
    IN  [data |-> a.analysis_content, fund_name |-> a.fund_name,
         fund_code |-> a.fund_code, nav_dt |-> a.nav_dt,
         estimate_value |-> Get(fund_info, "estimate_value", EmptyStr),
         price |-> Get(fund_info, "price", EmptyStr),
         apply_status |-> Get(fund_info, "apply_status", EmptyStr),
         discount_rt |-> Get(fund_info, "discount_rt", EmptyStr)]

\* get_discount_rt_value(item): [fin, val], -inf when fin is FALSE
get_discount_rt_value(item) ==
    LET d == item.discount_rt
        f == IF d.t = "str" THEN FloatOfStr(StripPercent(d.s))
             ELSE [err |-> "AttributeError", val |-> 0]
    IN  IF d \in {EmptyStr, NoneVal, Num(0)} \/ f.err # ""
        THEN [fin |-> FALSE, val |-> 0]
        ELSE [fin |-> TRUE, val |-> f.val]

\* a >= b for two sort keys
KeyGE(a, b) == ~b.fin \/ (a.fin /\ a.val >= b.val)

RECURSIVE InsertItemDesc(_, _)
InsertItemDesc(sorted, x) ==
    IF sorted = <<>> THEN <<x>>
    ELSE IF KeyGE(get_discount_rt_value(Head(sorted)), get_discount_rt_value(x))
         THEN <<Head(sorted)>> \o InsertItemDesc(Tail(sorted), x)
         ELSE <<x>> \o sorted

\* sorted(data_list, key=get_discount_rt_value, reverse=True)
RECURSIVE SortedItems(_)
SortedItems(list) ==
    IF list = <<>> THEN <<>>
    ELSE InsertItemDesc(SortedItems(SubSeq(list, 1, Len(list) - 1)), list[Len(list)])

\* get_ai_analyses(date) for a date that strptime accepts: [conn, last,
\* calls, reply]; f1 and f2 are the fates of the two queries.
get_ai_analyses(c, fundsT, analysesT, d, reachable, f1, reachable2, f2) ==
    LET q == query_to_model(c, analysesT, d, reachable, f1.lost1, f1.detected,
                            f1.reachable2, f1.lost2)
        g == get_funds_by_date(q.conn, fundsT, d, reachable2, f2.lost1)
        data_list == [i \in 1..Len(q.res.list) |->
                         AnalysisItem(q.res.list[i], g.res.map)]
    IN  IF q.res.list = <<>>
        THEN [conn |-> q.conn, res |-> q.res, env |-> f1, calls |-> 1,
              reply |-> [status |-> "success", count |-> 0, data |-> <<>>]]
        ELSE [conn |-> g.conn, res |-> g.res, env |-> f2, calls |-> 2,
              reply |-> [status |-> "success", count |-> Len(data_list),
                         data |-> SortedItems(data_list)]]

\* GET /api/ai-analyses/{date}: valid is whether the text is YYYY-MM-DD
GetAiAnalyses ==
    /\ server = "live"
    /\ reply.n < MaxRequests
    /\ \E valid \in BOOLEAN, d \in 0..DateOf(MaxClock), reachable \in Reachability,
          f1 \in {NoFate, Fate(TRUE, FALSE, FALSE, FALSE)}, f2 \in LookupFates :
          IF ~valid
          THEN /\ reply' = [n |-> reply.n + 1, date |-> d, status |-> "400",
                            count |-> 0, data |-> <<>>]
               /\ UNCHANGED <<conn, last>>
          ELSE LET r == get_ai_analyses(conn, funds, ai_analyses, d, reachable,
                                        f1, TRUE, f2)
               IN  /\ reply' = [n |-> reply.n + 1, date |-> d,
                                status |-> r.reply.status, count |-> r.reply.count,
                                data |-> r.reply.data]
                   /\ conn' = r.conn
                   /\ last' = [n |-> last.n + r.calls, r |-> r.res, env |-> r.env]
    /\ UNCHANGED <<funds, ai_analyses, now, world, server, runs, hvars>>

\* The service after main.py was loaded: the database connection is up
\* (the process exits otherwise), the tables exist, no run has started.
ServiceNew ==
    /\ server = "live"
    /\ runs = [id \in RunIds |-> IdleRun]
    /\ reply = [n |-> 0, date |-> 0, status |-> "none", count |-> 0, data |-> <<>>]

\* The service does not act: the world is the first of Worlds.
ServiceOff ==
    /\ world = [credentials |-> TRUE,
                upstream |-> CHOOSE u \in Upstreams : TRUE,
                answer |-> Answer(TRUE, "none", "error", <<>>)]
    /\ ServiceNew

-----------------------------------------------------------------------------
(* Specifications of the handler *)

HandlerNew(raw, sb) ==
    /\ raw_data = raw
    /\ sort_by = sb
    /\ lof_list = <<>>
    /\ page_info = EmptyPage
    /\ hpc = "new"
    /\ struct_array = <<>>
    /\ deserve = <<>>
    /\ qualified = <<>>
    /\ called = {}
    /\ DBNew
    /\ ServiceOff

InitSort ==
    \E items \in SeqsUpTo({RowOf(c) : c \in SortCells}, MaxSortLen),
       sb \in {"discount_rt", "premium_rt", "price"} :
        HandlerNew(RowsPayload(items), sb)

InitQualify ==
    \E c \in QualifyCells : HandlerNew(RowsPayload(<<RowOf(c)>>), NoSort)

InitProject ==
    \E items \in SeqsUpTo({RowOf(c) : c \in ProjectCells}, MaxRows),
       sb \in {NoSort, "discount_rt"} :
        HandlerNew(RowsPayload(items), sb)

InitParse ==
    \E raw \in ParsePayloads, sb \in {NoSort, "discount_rt"} : HandlerNew(raw, sb)

SpecSort == InitSort /\ [][Construct]_vars

SpecQualify == InitQualify /\ [][Construct \/ IsQualifiedFund]_vars

SpecProject ==
    InitProject /\ [][Construct \/ GetFundStructArray \/ GetDeserveArbitrageFund]_vars

SpecParse == InitParse /\ [][Construct]_vars

-----------------------------------------------------------------------------
(* Specification of the persistence layer *)

InitDB ==
    /\ raw_data = NonePayload /\ sort_by = NoSort /\ lof_list = <<>>
    /\ page_info = EmptyPage /\ hpc = "new" /\ struct_array = <<>>
    /\ deserve = <<>> /\ qualified = <<>> /\ called = {}
    /\ DBNew
    /\ ServiceOff

NextDB ==
    \/ SaveFunds
    \/ SaveAiAnalysis
    \/ QueryToModel
    \/ GetFundsByDate
    \/ GetFundsByNavDt
    \/ ConnectionDrop
    \/ Tick

SpecDB == InitDB /\ [][NextDB]_vars

\* save_funds alone, on longer batches
SpecBatch == InitDB /\ [][SaveFundsLong \/ ConnectionDrop \/ Tick]_vars

MaxStored == 2      \* snapshots in the first save_funds call that filled funds

\* The snapshots of two funds a fetch at time t can produce.
LookupSnapshots(t) ==
    {Snapshot(F1, D1, t), Snapshot(F1, NoneVal, t), Snapshot(F2, D1, t)}

\* funds after three save_funds calls: two on the first day, at different
\* times, and one on the next day.
StoredFunds ==
    {save_funds("live",
         save_funds("live", save_funds("live", <<>>, b1, 0, TRUE, 0).table,
                    b2, 1, TRUE, 0).table,
         b3, TicksPerDay, TRUE, 0).table :
        b1 \in SeqsUpTo(LookupSnapshots(0), MaxStored),
        b2 \in SeqsUpTo(LookupSnapshots(1), 1),
        b3 \in SeqsUpTo(LookupSnapshots(TicksPerDay), 1)}

\* get_funds_by_date alone, on the tables earlier runs left
InitLookup ==
    /\ raw_data = NonePayload /\ sort_by = NoSort /\ lof_list = <<>>
    /\ page_info = EmptyPage /\ hpc = "new" /\ struct_array = <<>>
    /\ deserve = <<>> /\ qualified = <<>> /\ called = {}
    /\ conn = "live"
    /\ funds \in StoredFunds
    /\ ai_analyses = <<>>
    /\ now = TicksPerDay
    /\ last = [n |-> 0, r |-> NoOp, env |-> NoFate]
    /\ ServiceOff

SpecLookup == InitLookup /\ [][GetFundsByDate \/ ConnectionDrop]_vars

-----------------------------------------------------------------------------
(* Specification of the service *)

HandlerIdle ==
    /\ raw_data = NonePayload /\ sort_by = NoSort /\ lof_list = <<>>
    /\ page_info = EmptyPage /\ hpc = "new" /\ struct_array = <<>>
    /\ deserve = <<>> /\ qualified = <<>> /\ called = {}

InitService ==
    /\ HandlerIdle
    /\ conn = "live" /\ funds = <<>> /\ ai_analyses = <<>> /\ now = 0
    /\ last = [n |-> 0, r |-> NoOp, env |-> NoFate]
    /\ world \in Worlds
    /\ ServiceNew

NextService ==
    \/ \E id \in RunIds :
          \/ Scheduled(id)
          \/ TriggerAnalysis(id)
          \/ Fetch(id)
          \/ Persist(id)
          \/ Credentials(id)
          \/ Ask(id)
          \/ Parse(id)
          \/ SaveResult(id)
    \/ ConnectionDrop

SpecService == InitService /\ [][NextService]_vars

\* One run and the analyses endpoint
NextEndpoint ==
    \/ Scheduled("r1")
    \/ TriggerAnalysis("r1")
    \/ Fetch("r1")
    \/ Persist("r1")
    \/ Credentials("r1")
    \/ Ask("r1")
    \/ Parse("r1")
    \/ SaveResult("r1")
    \/ GetAiAnalyses

SpecEndpoint == InitService /\ [][NextEndpoint]_vars

\* Both upstream sources answer with an empty JSON object.
EmptyUpstream ==
    [lof |-> DictPayload({}, NoPage, NoRows), qdii |-> DictPayload({}, NoPage, NoRows)]

\* The worlds in which the fetch is examined: the upstream serves rows or
\* empty payloads; the credentials are set and the collaborator answers
\* with one analysis.
FetchWorlds ==
    {[credentials |-> TRUE, upstream |-> u,
      answer |-> Answer(FALSE, "completed", "list", <<AiResult(ResultKeys, F1)>>)] :
        u \in Upstreams \cup {EmptyUpstream}}

InitFetch ==
    /\ HandlerIdle
    /\ conn = "live" /\ funds = <<>> /\ ai_analyses = <<>> /\ now = 0
    /\ last = [n |-> 0, r |-> NoOp, env |-> NoFate]
    /\ world \in FetchWorlds
    /\ ServiceNew

SpecFetch == InitFetch /\ [][NextService]_vars

-----------------------------------------------------------------------------
(* Properties of the handler *)

\* What each rate text of the inputs means as a number, in hundredths,
\* written out value by value (independently of Float); num is FALSE for a
\* value that is no number.
RateMeaning(value) ==
    CASE value = R30p -> [num |-> TRUE, val |-> 300]
      [] value = R399p -> [num |-> TRUE, val |-> 399]
      [] value = R4 -> [num |-> TRUE, val |-> 400]
      [] value = R40p -> [num |-> TRUE, val |-> 400]
      [] value = R401 -> [num |-> TRUE, val |-> 401]
      [] value = R45p -> [num |-> TRUE, val |-> 450]
      [] value = R5 -> [num |-> TRUE, val |-> 500]
      [] value = R50p -> [num |-> TRUE, val |-> 500]
      [] value = R10p -> [num |-> TRUE, val |-> 1000]
      [] value = RNeg15p -> [num |-> TRUE, val |-> 0 - 150]
      [] value = Str(<<"2", "%">>) -> [num |-> TRUE, val |-> 200]
      [] value.t = "num" -> [num |-> TRUE, val |-> value.n]
      [] OTHER -> [num |-> FALSE, val |-> 0]

\* The numeric sort key the specification gives a record.
ClaimKey(item, field) ==
    IF field \notin DOMAIN item THEN 0
    ELSE IF RateMeaning(item[field]).num THEN RateMeaning(item[field]).val
    ELSE 0

\* The cells of the payload's rows, in upstream order (every row of these
\* payloads is a mapping).
UpstreamCells ==
    LET withCell == SelectSeq(raw_data.rows.items, LAMBDA r : r.hasCell)
    IN  [i \in 1..Len(withCell) |-> withCell[i].cell]

\* The position the stable descending sort gives the record at position j.
StableRank(list, field, j) ==
    1 + Cardinality({k \in 1..Len(list) :
                        \/ ClaimKey(list[k], field) > ClaimKey(list[j], field)
                        \/ /\ ClaimKey(list[k], field) = ClaimKey(list[j], field)
                           /\ k < j})

IsStableDescending(result, list, field) ==
    /\ Len(result) = Len(list)
    /\ \A j \in 1..Len(list) : result[StableRank(list, field, j)] = list[j]
    /\ \A i, j \in 1..Len(result) :
          i < j => ClaimKey(result[i], field) >= ClaimKey(result[j], field)

ClaimQualified(lof) ==
    /\ ~("apply_status" \in DOMAIN lof /\ lof.apply_status = SUSPEND_APPLY)
    /\ "redeem_status" \in DOMAIN lof /\ lof.redeem_status = OPEN_REDEEM
    /\ "discount_rt" \in DOMAIN lof
    /\ RateMeaning(lof.discount_rt).num
    /\ RateMeaning(lof.discount_rt).val > 400

AbsentOrEmpty(lof, field) == field \notin DOMAIN lof \/ lof[field] = EmptyStr

DefaultFilled(fund, lof) ==
    \A f \in FieldSet : f \notin DOMAIN lof => fund[f] = EmptyStr

\* C7: every materialized fund of both projections has the empty string,
\* never None, in every field missing from the source row, nav_dt included.
C7_EmptyStringDefaults ==
    /\ "struct" \in called =>
          \A i \in 1..Len(struct_array) :
              /\ DefaultFilled(struct_array[i], lof_list[i])
              /\ \A f \in FieldSet : struct_array[i][f] # NoneVal
    /\ "deserve" \in called =>
          \A i \in 1..Len(deserve) : \A f \in FieldSet : deserve[i][f] # NoneVal

\* The k-th smallest member of a set of positions.
Nth(idx, k) == CHOOSE i \in idx : Cardinality({j \in idx : j < i}) = k - 1

\* C8: the eligible projection is exactly the subsequence of the full
\* projection at the positions of the qualifying records, and the full
\* projection follows the parsed order: upstream order when unsorted, the
\* stable descending order when sorted.
C8_DeserveIsQualifiedSubsequence ==
    ({"struct", "deserve"} \subseteq called) =>
        LET idx == {i \in 1..Len(lof_list) : ClaimQualified(lof_list[i])}
        IN  /\ Len(struct_array) = Len(lof_list)
            /\ \A i \in 1..Len(lof_list) : \A f \in DOMAIN lof_list[i] :
                  f \in FieldSet => struct_array[i][f] = lof_list[i][f]
            /\ Len(deserve) = Cardinality(idx)
            /\ \A k \in 1..Len(deserve) : deserve[k] = struct_array[Nth(idx, k)]
            /\ sort_by = NoSort => lof_list = UpstreamCells
            /\ sort_by \in valid_sort_fields
                  => IsStableDescending(lof_list, UpstreamCells, sort_by)

\* C8 witness: three rows, two different qualifying ones and one that does
\* not qualify, sorted into another order than upstream.
C8_Witness ==
    /\ {"struct", "deserve"} \subseteq called
    /\ sort_by = "discount_rt"
    /\ Len(lof_list) = 3 /\ Len(deserve) = 2
    /\ deserve[1] # deserve[2]
    /\ lof_list # UpstreamCells

\* A malformed payload without page metadata: None, {}, not a mapping, or a
\* mapping whose rows field is not a list.
MalformedPayload(raw) ==
    \/ raw.kind \in {"none", "other"}
    \/ raw.kind = "dict" /\ raw.keys = {}
    \/ raw.kind = "dict" /\ raw.keys = {"rows"} /\ raw.rows.t # "list"

\* C9: constructing the handler on a malformed payload never raises and
\* yields an empty record list.
C9_MalformedNeverRaises ==
    (hpc # "new" /\ MalformedPayload(raw_data))
        => (hpc = "parsed" /\ lof_list = <<>>)

\* The positions of the rows of items that have a cell field.
CellPositions(items) == {i \in 1..Len(items) : items[i].hasCell}

\* C19: for a mapping payload whose rows field is a list (and that carries
\* no page field), the unsorted record list is the sequence of the cells of
\* the rows that have a cell field, in upstream order; the other rows are
\* skipped and do not stop the extraction.
C19_CellsInUpstreamOrder ==
    (/\ hpc # "new"
     /\ raw_data.kind = "dict" /\ raw_data.keys = {"rows"}
     /\ raw_data.rows.t = "list"
     /\ sort_by = NoSort) =>
        LET items == raw_data.rows.items
            at == CellPositions(items)
        IN  /\ hpc = "parsed"
            /\ Len(lof_list) = Cardinality(at)
            /\ \A i \in at :
                  lof_list[Cardinality({j \in at : j <= i})] = items[i].cell

\* The payload without its page field.
WithoutPage(raw) == [raw EXCEPT !.keys = @ \ {"page"}, !.page = NoPage]

\* C20: whatever the page field of a mapping payload is, parsing does not
\* abort and the record list is the one extracted from the same payload
\* without the page field.
C20_PageShapeNeverChangesRecords ==
    (/\ hpc # "new"
     /\ raw_data.kind = "dict" /\ "page" \in raw_data.keys
     /\ ~_parse_data(WithoutPage(raw_data), sort_by).raised) =>
        /\ hpc = "parsed"
        /\ lof_list = _parse_data(WithoutPage(raw_data), sort_by).lof_list

-----------------------------------------------------------------------------
(* Properties of the persistence operations *)

\* The persistence call that has just returned, if this step is one.
Returned(op) == last'.n = last.n + 1 /\ last'.r.op = op

\* C1: after any sequence of save_funds calls, for every snapshot the
\* pipeline can produce (any field possibly absent), funds holds at most one
\* row per natural key (fund_id, fund_nm, nav_dt).
C1_OneRowPerNaturalKey ==
    \A i, j \in 1..Len(funds) :
        (\A k \in unique_fund : funds[i].c[k] = funds[j].c[k]) => i = j

\* C2: after any sequence of save_ai_analysis calls, ai_analyses holds at
\* most one row per (fund_code, analysis date).
C2_OneRowPerFundCodeAndDate ==
    \A i, j \in 1..Len(ai_analyses) :
        (/\ ai_analyses[i].fund_code = ai_analyses[j].fund_code
         /\ ai_analyses[i].date = ai_analyses[j].date) => i = j

\* C5: when save_funds hits an existing natural key it overwrites every
\* mutable market field of the row with the new snapshot's value and leaves
\* the row's created_at unchanged.
C5_UpsertKeepsCreatedAt ==
    [][Returned("save_funds") =>
        \A i \in 1..Len(funds) :
            /\ funds'[i].created_at = funds[i].created_at
            /\ funds'[i] # funds[i] =>
                  \A f \in FundsUpdated : funds'[i].c[f] = MarketAt(now)]_vars

\* C6: when a row of a save_funds batch fails, either no row of the batch
\* is stored or every row but the failing one is; never are the rows before
\* the failing row committed and the rows after it not attempted.
C6_ConsistentFailurePolicy ==
    [][(Returned("save_funds") /\ last'.r.cause = "data") =>
        \/ funds' = funds
        \/ last'.r.stmts = last'.r.batchLen - 1]_vars

\* The failure sentinel of an operation: False for the saves, an empty list
\* or mapping for the queries.
Sentinel(r) ==
    IF r.op \in {"save_funds", "save_ai_analysis"}
    THEN r.ok = FALSE
    ELSE r.list = <<>> /\ r.map = <<>>

\* C10: every persistence operation checks the connection first and
\* reconnects when it is not live; when the reconnect fails the operation
\* executes no statement, changes no table, returns its failure sentinel and
\* does not raise.
C10_EnsuresConnectionFirst ==
    [][last'.n = last.n + 1 =>
        LET r == last'.r
        IN  /\ r.op \in {"save_funds", "save_ai_analysis", "query_to_model",
                         "get_funds_by_date", "get_funds_by_nav_dt"}
            /\ r.ensured = (IF is_connected(conn) THEN "live"
                            ELSE IF is_connected(conn') \/ r.attempted > 0
                                 THEN "reconnected" ELSE "failed")
            /\ r.ensured = "failed" =>
                  /\ r.attempted = 0
                  /\ ~r.raised
                  /\ Sentinel(r)
                  /\ ~is_connected(conn')
                  /\ funds' = funds /\ ai_analyses' = ai_analyses]_vars

\* An operation found the connection dropped and could not reconnect.
C10_Witness ==
    /\ last.n > 0
    /\ last.r.ensured = "failed"
    /\ conn = "dropped"

\* C11: when the connection is lost during a persistence operation, after
\* the connection check passed, and stays unusable, the operation returns
\* its failure sentinel and no exception reaches the caller; for the saves
\* as well as for the queries.
C11_DropDuringOperation ==
    [][(/\ last'.n = last.n + 1
        /\ last'.r.cause = "lost"
        /\ ~is_connected(conn')) =>
           ~last'.r.raised /\ Sentinel(last'.r)]_vars

QueryOps == {"query_to_model", "get_funds_by_date", "get_funds_by_nav_dt"}

SaveOps == {"save_funds", "save_ai_analysis"}

\* C12: a query (query_to_model, get_funds_by_date, get_funds_by_nav_dt)
\* that fails on a detected connection loss reconnects and executes the
\* query once more; when the second attempt fails too the result is empty
\* and there is no third attempt.  A save never executes a statement twice.
C12_OneRetryForQueries ==
    [][last'.n = last.n + 1 =>
        LET r == last'.r
            e == last'.env
        IN  /\ (/\ r.op \in QueryOps
                /\ r.ensured # "failed"
                /\ e.lost1 /\ e.detected /\ e.reachable2) =>
                   /\ r.attempted = 2
                   /\ e.lost2 => r.list = <<>> /\ r.map = <<>>
            /\ r.op \in QueryOps => r.attempted <= 2
            /\ r.op \in SaveOps => r.attempted <= r.batchLen]_vars

-----------------------------------------------------------------------------
(* Properties of the service *)

\* The calls of op in the log of a run.
Calls(run, op) == {i \in 1..Len(run.log) : run.log[i].op = op}

\* C13: when the collaborator's content fails JSON parsing the run saves no
\* analysis at all, and the parse failure leaves the fund rows that
\* save_funds stored earlier in the run as they are.
C13_ParseFailureDropsBatch ==
    [][\A id \in RunIds :
          /\ (/\ world.answer.json = "error"
              /\ runs[id].pc = "parse"
              /\ runs'[id] # runs[id]) =>
                 /\ runs'[id].pc = "done"
                 /\ funds' = funds
                 /\ ai_analyses' = ai_analyses
          /\ world.answer.json = "error" =>
                 Calls(runs'[id], "save_ai_analysis") = {}]_vars

\* A run stored fund rows and then dropped the unparsable answer.
C13_Witness ==
    \E id \in RunIds :
        /\ runs[id].end = "parsefail"
        /\ \E i \in Calls(runs[id], "save_funds") : runs[id].log[i].ok
        /\ funds # <<>>
        /\ ai_analyses = <<>>

\* C14: save_ai_analysis is called in a run only after the collaborator
\* call of that run returned with a completed status and its content was
\* parsed; a call that raises or does not complete leads to no save.
C14_SaveOnlyAfterSuccessfulRoundTrip ==
    \A id \in RunIds :
        \A i \in Calls(runs[id], "save_ai_analysis") :
            /\ \E j \in Calls(runs[id], "send_message") : j < i /\ runs[id].log[j].ok
            /\ world.answer.status = "completed"
            /\ world.answer.json = "list"

\* C15: when the credential or the bot id is missing, a run neither calls
\* the collaborator nor saves an analysis; the process stays live and the
\* trigger can start the next run.
C15_MissingCredentialsAbortRunOnly ==
    ~world.credentials =>
        /\ \A id \in RunIds :
              /\ Calls(runs[id], "send_message") = {}
              /\ Calls(runs[id], "save_ai_analysis") = {}
              /\ runs[id].pc \notin {"ask", "parse", "save"}
        /\ ai_analyses = <<>>
        /\ server = "live"
        /\ runs[NextRun].pc = "idle" => ENABLED TriggerAnalysis(NextRun)

\* A run was aborted for the missing credential and the trigger started
\* another one.
C15_Witness ==
    /\ ~world.credentials
    /\ runs["r1"].end = "aborted"
    /\ runs["r2"].origin = "trigger"
    /\ runs["r2"].pc = "fetch"

\* C17: the trigger answers success in the step that starts the thread,
\* before the run has done anything, and the answer is never changed by
\* what the run does later.
C17_TriggerAnswersAtOnce ==
    [][\A id \in RunIds :
          /\ (runs[id].pc = "idle" /\ runs'[id].pc = "fetch"
              /\ runs'[id].origin = "trigger") =>
                 runs'[id].response = "success" /\ runs'[id].log = <<>>
          /\ runs[id].pc # "idle" => runs'[id].response = runs[id].response]_vars

\* The trigger answered success and the run it started failed later.
C17_Witness ==
    \E id \in RunIds :
        /\ runs[id].response = "success"
        /\ runs[id].end = "error"

\* The tables a single run leaves, from empty tables, for payload data and
\* the answer items from position k on.
RECURSIVE AnalysesOfSingleRun(_, _, _)
AnalysesOfSingleRun(table, items, k) ==
    IF k > Len(items) THEN table
    ELSE IF ~(ResultKeys \subseteq items[k].keys)
    THEN AnalysesOfSingleRun(table, items, k + 1)
    ELSE AnalysesOfSingleRun(
             save_ai_analysis("live", table, items[k].analysis_content,
                              items[k].fund_name, items[k].fund_code,
                              items[k].nav_dt, 0, TRUE, 0).table,
             items, k + 1)

FundsOfSingleRun(data) ==
    save_funds("live", <<>>,
               get_fund_struct_array(_parse_data(data, "discount_rt").lof_list),
               0, TRUE, 0).table

\* The run went through without any failure.
Flawless(run) ==
    /\ run.end = "saved"
    /\ \A i \in 1..Len(run.log) : run.log[i].ok

\* C18: two runs over the same payload and the same answer, however they
\* interleave, leave the fund rows and the analysis rows of a single run.
C18_OverlappingRunsAreIdempotent ==
    (/\ \A id \in RunIds : Flawless(runs[id])
     /\ runs["r1"].data = runs["r2"].data) =>
        /\ funds = FundsOfSingleRun(runs["r1"].data)
        /\ ai_analyses = AnalysesOfSingleRun(<<>>, world.answer.items, 1)

\* The rows of funds ingested on date d with fund code code.
SnapshotsOf(code, d) ==
    {i \in 1..Len(funds) : funds[i].date = d /\ funds[i].c["fund_id"] = code}

\* The rate of a text as the claim reads it: a number, or none.
RateOf(v) == [fin |-> RateMeaning(v).num, val |-> RateMeaning(v).val]

\* C16: for a valid date (and queries that succeed) the endpoint returns one
\* item per analysis row of that date; each item carries estimate value,
\* price, subscription status and discount rate of the stored snapshot of
\* its fund code on that date ('' only when there is none); the items are
\* in descending order of discount rate, and count is the number of items.
C16_AnalysesJoinSnapshots ==
    [][(/\ reply'.n = reply.n + 1
        /\ reply'.status = "success"
        /\ last'.r.cause = "" /\ last'.r.stmts = 1) =>
           /\ reply'.count = Len(reply'.data)
           /\ Len(reply'.data) = Len(AnalysesOfDate(ai_analyses, reply'.date))
           /\ \A k \in 1..Len(reply'.data) :
                 LET item == reply'.data[k]
                     at == SnapshotsOf(item.fund_code, reply'.date)
                 IN  IF at = {}
                     THEN item.discount_rt = EmptyStr /\ item.price = EmptyStr
                     ELSE \E i \in at :
                             /\ item.discount_rt = funds[i].c["discount_rt"]
                             /\ item.price = funds[i].c["price"]
                             /\ item.estimate_value = funds[i].c["estimate_value"]
                             /\ item.apply_status = funds[i].c["apply_status"]
           /\ \A j, k \in 1..Len(reply'.data) :
                 j < k => KeyGE(RateOf(reply'.data[j].discount_rt),
                                RateOf(reply'.data[k].discount_rt))]_vars

-----------------------------------------------------------------------------
(* The lookup of funds by ingestion date *)

\* The positions of the rows of funds ingested on date d.
IngestedOn(d) == {i \in 1..Len(funds) : funds[i].date = d}

-----------------------------------------------------------------------------
(* The order of the steps of a run *)

\* C22: a run that obtained a payload calls save_funds once, over all the
\* records of the payload, before the collaborator; whatever save_funds
\* reports, the run goes on to the analysis branch.
C22_SaveFundsNeverGatesAnalysis ==
    [][\A id \in RunIds :
          /\ (runs[id].pc = "persist" /\ runs'[id] # runs[id]) =>
                /\ runs'[id].log = <<Event("save_funds", last'.r.ok, last'.r.raised)>>
                /\ Returned("save_funds")
                /\ last'.r.batchLen = Len(runs[id].data.rows.items)
                /\ runs'[id].pc = "credentials"
          /\ Cardinality(Calls(runs'[id], "save_funds")) <= 1
          /\ \A i \in Calls(runs'[id], "send_message") :
                \E j \in Calls(runs'[id], "save_funds") : j < i]_vars

\* C23: a fetch that yields no payload (both sources failed, or the
\* payload is empty) ends the run at once: no persistence call, no
\* collaborator call, nothing stored, and the run returns.
C23_NoPayloadNoWork ==
    [][/\ \A u \in Upstreams \cup {EmptyUpstream} :
             LET d == fetch_all_fund_data(u, FALSE, FALSE)
             IN  ~d.raised /\ Falsy(d.data)
       /\ \A lofOk, qdiiOk \in BOOLEAN :
             LET d == fetch_all_fund_data(EmptyUpstream, lofOk, qdiiOk)
             IN  ~d.raised /\ Falsy(d.data)
       /\ \A id \in RunIds :
             /\ (runs[id].pc = "fetch" /\ runs'[id] # runs[id]
                 /\ Falsy(runs'[id].data)) =>
                    /\ runs'[id] = Ended(runs[id], "nodata")
                    /\ runs'[id].log = <<>>
                    /\ UNCHANGED <<funds, ai_analyses, conn, last>>
             /\ runs[id].pc = "done" => runs'[id] = runs[id]
             /\ world.upstream = EmptyUpstream =>
                    /\ runs'[id].pc \in {"idle", "fetch", "nothread", "done"}
                    /\ runs'[id].log = <<>>
                    /\ funds' = <<>> /\ ai_analyses' = <<>> /\ last'.n = 0]_vars

\* One run found both sources failing and ended without a call, while
\* the other run of the same world stored its analysis.
C23_Witness ==
    \E id, other \in RunIds :
        /\ runs[id].end = "nodata" /\ runs[id].log = <<>>
        /\ runs[other].end = "saved"

-----------------------------------------------------------------------------
(* The loop over the collaborator's results *)

\* C24: the loop takes the elements of a non-empty array one by one from
\* the first: an element with the four keys is passed to save_ai_analysis
\* once, any other element is skipped, and after either, whatever the save
\* returned, the loop goes on with the next element (a save that raises,
\* instead of returning, ends the run).
C24_EveryCompleteResultSaved ==
    [][\A id \in RunIds :
          /\ (runs[id].pc = "parse" /\ runs'[id].pc = "save") => runs'[id].k = 1
          /\ (runs[id].pc = "save" /\ runs'[id] # runs[id]) =>
                LET items == world.answer.items
                    k == runs[id].k
                IN  /\ IF ResultKeys \subseteq items[k].keys
                       THEN /\ Returned("save_ai_analysis")
                            /\ runs'[id].log =
                                  Append(runs[id].log,
                                         Event("save_ai_analysis", last'.r.ok,
                                               last'.r.raised))
                            /\ last'.r.ok =>
                                  /\ Len(ai_analyses') = Len(ai_analyses) + 1
                                  /\ ai_analyses'[Len(ai_analyses')].fund_code
                                        = items[k].fund_code
                       ELSE /\ runs'[id].log = runs[id].log
                            /\ UNCHANGED <<ai_analyses, last>>
                    /\ IF ResultKeys \subseteq items[k].keys /\ last'.r.raised
                       THEN runs'[id].end = "apierror"
                       ELSE IF k < Len(items)
                       THEN runs'[id].pc = "save" /\ runs'[id].k = k + 1
                       ELSE runs'[id].end = "saved"]_vars

====
